---- MODULE Spec2Model ----
(***************************************************************************)
(* A model of app.py, the Streamlit dashboard "Analiz uspevaemosti".       *)
(*                                                                         *)
(* One run of the script is one render cycle: load + prep, the sidebar     *)
(* widgets, the filtered dataframe, the empty guard, then the tabs.  The   *)
(* position in the script is pc; Rerun starts the next cycle.  Of a chart  *)
(* the model keeps the aggregate it is handed; of the categorical columns  *)
(* it keeps the three geographic ones, two nominal ones (Kurs, Pol) and    *)
(* the two ordinal ones.  pandas is a 2.x one: astype(str) turns a         *)
(* missing cell into 'nan' and groupby lists the categories of a           *)
(* Categorical that have no row (observed=False).                          *)
(*                                                                         *)
(* Encoding.  Text is a TLA+ string and its characters are read with       *)
(* SubSeq.  Module strings are ASCII.  The source's Cyrillic column names  *)
(* are written in Latin transliteration.  In the text of a cell, Cyrillic  *)
(* letters are written between braces, one Latin letter for each (the      *)
(* table is CyrillicLower): "{magistr}" is the source's Cyrillic word,     *)
(* "PhD" its Latin one, and the braces are no characters of the text.  A   *)
(* run in braces begins and ends with a letter.  A missing cell            *)
(* (pandas NaN / None) is the reserved value NaN, which no text of the     *)
(* model's inputs equals.  A number (a cell of a column after              *)
(* pd.to_numeric, a mean) is <<n>>, and the missing number is <<>>.        *)
(* A mean is kept in hundredths, which is what .round(2) leaves of it.     *)
(***************************************************************************)
EXTENDS Integers, Sequences, FiniteSets, TLC

(***************************************************************************)
(* Bounds of the model.                                                    *)
(***************************************************************************)
MaxRows == 2
MaxDeselect == 2
\* The positions the user moves an end of the age slider from its default.
MaxSlide == 1

(***************************************************************************)
(* Column names (src/app.py:20-25) and literals.                           *)
(***************************************************************************)
OUTCOME_COL == "Itogovyj ball"
COL_OBL == "Oblast"
COL_RN == "Rajon"
COL_ORG == "Organizaciya"
COL_KURS == "Kurs"
COL_POL == "Pol"
COL_AGE == "Vozrast"
COL_AGE_GROUP == "Vozrastnaya gruppa"
COL_DEGREE == "Uchyonaya stepen"
COL_DEGREE_ALT == "Uchenaya stepen"
\* The column the comparison tab adds (line 479).
GROUP_COL == "_group"
GEO_COLS == <<COL_OBL, COL_RN, COL_ORG>>

NaN == "<NaN>"
NumNaN == <<>>
Num(n) == <<n>>

isna(x) == x = NaN

\* pd.isna on a number
num_isna(x) == x = NumNaN

(***************************************************************************)
(* Text: characters, str.strip, str.lower, ordering of text.               *)
(***************************************************************************)
CharAt(s, i) == SubSeq(s, i, i)

Whitespace == {" ", "\t"}
Digits == {"0", "1", "2", "3", "4", "5", "6", "7", "8", "9"}

\* The ASCII characters of the model's texts in code point order.
Alphabet == "\t ()*+,-0123456789:<>ABCDEFGHIJKLMNOPQRSTUVWXYZ_abcdefghijklmnopqrstuvwxyz"
UpperCase == "ABCDEFGHIJKLMNOPQRSTUVWXYZ"
LowerCase == "abcdefghijklmnopqrstuvwxyz"

\* The Cyrillic letters of the model's texts in code point order, each
\* written as the Latin letter that stands for it between braces:
\* a b v g d e z i j(i kratkoe) k l m n o p r s t u f h c(tse) q(che)
\* y(yery) w(yu) x(ya).  The capitals (U+0410..) come before the small
\* letters (U+0430..), and both after every ASCII character.
CyrillicLower == "abvgdezijklmnoprstufhcqywx"
CyrillicUpper == "ABVGDEZIJKLMNOPRSTUFHCQYWX"

IndexIn(c, alphabet) ==
    IF \E i \in 1..Len(alphabet) : CharAt(alphabet, i) = c
    THEN CHOOSE i \in 1..Len(alphabet) : CharAt(alphabet, i) = c
    ELSE 0

CharCode(c) == IndexIn(c, Alphabet)

\* The place of a character in code point order; cyrillic says that it is
\* written between braces.
ord(c, cyrillic) ==
    IF cyrillic /\ IndexIn(c, CyrillicUpper \o CyrillicLower) > 0
    THEN Len(Alphabet) + IndexIn(c, CyrillicUpper \o CyrillicLower)
    ELSE CharCode(c)

\* The code points of a text from its i-th model character on.
RECURSIVE CodesFrom(_, _, _)
CodesFrom(s, i, cyrillic) ==
    IF i > Len(s) THEN <<>>
    ELSE IF CharAt(s, i) = "{" THEN CodesFrom(s, i + 1, TRUE)
    ELSE IF CharAt(s, i) = "}" THEN CodesFrom(s, i + 1, FALSE)
    ELSE <<ord(CharAt(s, i), cyrillic)>> \o CodesFrom(s, i + 1, cyrillic)

\* str.lower of one character: a capital of either script becomes the small
\* letter of the same script.
LowerChar(c) ==
    IF IndexIn(c, UpperCase) > 0 THEN CharAt(LowerCase, IndexIn(c, UpperCase)) ELSE c

RECURSIVE str_lower(_)
str_lower(s) ==
    IF Len(s) = 0 THEN "" ELSE LowerChar(CharAt(s, 1)) \o str_lower(SubSeq(s, 2, Len(s)))

RECURSIVE lstrip(_)
lstrip(s) ==
    IF Len(s) > 0 /\ CharAt(s, 1) \in Whitespace THEN lstrip(SubSeq(s, 2, Len(s))) ELSE s

RECURSIVE rstrip(_)
rstrip(s) ==
    IF Len(s) > 0 /\ CharAt(s, Len(s)) \in Whitespace
    THEN rstrip(SubSeq(s, 1, Len(s) - 1)) ELSE s

str_strip(s) == rstrip(lstrip(s))

\* The lexicographic order of two sequences of code points, a proper prefix
\* first.
RECURSIVE CodesLess(_, _, _)
CodesLess(a, b, i) ==
    IF i > Len(b) THEN FALSE
    ELSE IF i > Len(a) THEN TRUE
    ELSE IF a[i] = b[i] THEN CodesLess(a, b, i + 1)
    ELSE a[i] < b[i]

\* Python's < on str: by code point, a proper prefix first.
StrLess(a, b) == CodesLess(CodesFrom(a, 1, FALSE), CodesFrom(b, 1, FALSE), 1)

(***************************************************************************)
(* Cell conversions.                                                       *)
(***************************************************************************)
\* to_str_null: NaN/None is shown as 'NULL'.
to_str_null(x) == IF isna(x) THEN "NULL" ELSE x

\* Series.astype(str) on one cell: a missing cell becomes the text 'nan'.
astype_str(x) == IF isna(x) THEN "nan" ELSE x

RECURSIVE ParseDigits(_, _)
ParseDigits(s, acc) ==
    IF Len(s) = 0 THEN acc
    ELSE ParseDigits(SubSeq(s, 2, Len(s)), 10 * acc + (CharCode(CharAt(s, 1)) - CharCode("0")))

IsDigits(s) == Len(s) > 0 /\ \A i \in 1..Len(s) : CharAt(s, i) \in Digits

\* Variant: an entry that is no number becomes 0.
to_numeric_zero(x) ==
    IF isna(x) THEN NumNaN
    ELSE IF IsDigits(x) THEN Num(ParseDigits(x, 0))
    ELSE Num(0)

\* pd.to_numeric(errors="coerce") on one cell: a text of decimal digits is its
\* number; a missing cell and a text that is no number (the model's other texts
\* hold no digit, sign, dot or blank) are missing.
to_numeric(x) ==
    IF isna(x) THEN NumNaN
    ELSE IF IsDigits(x) THEN Num(ParseDigits(x, 0))
    ELSE NumNaN

(***************************************************************************)
(* Tables.  A DataFrame is [columns, rows, cats]: the set of its column    *)
(* names, the sequence of its rows (each a function from the column names  *)
(* and INDEX to cells; INDEX is the row's label in df.index), and for each *)
(* column that holds a pd.Categorical the list of its categories.          *)
(***************************************************************************)
INDEX == "_index"

NoCats == [c \in {} |-> <<>>]

EmptyDataFrame == [columns |-> {}, rows |-> <<>>, cats |-> NoCats]

\* DataFrame.empty: some axis has length 0.
df_empty(df) == df.columns = {} \/ Len(df.rows) = 0

Range(s) == {s[i] : i \in DOMAIN s}

IndexSet(df) == {r[INDEX] : r \in Range(df.rows)}

\* df[mask]: the rows the mask keeps, in their order.
RECURSIVE SelectRows(_, _)
SelectRows(rows, keep) ==
    IF Len(rows) = 0 THEN <<>>
    ELSE (IF Head(rows)[INDEX] \in keep THEN <<Head(rows)>> ELSE <<>>)
         \o SelectRows(Tail(rows), keep)

Mask(df, keep) == [df EXCEPT !.rows = SelectRows(df.rows, keep)]

\* available(df, cols)
available(df, cols) == {c \in cols : c \in df.columns}

\* df.rename(columns={old: new}, inplace=True)
RenameColumn(df, old, new) ==
    [columns |-> (df.columns \ {old}) \cup {new},
     rows |-> [i \in DOMAIN df.rows |->
                 [c \in ((DOMAIN df.rows[i]) \ {old}) \cup {new} |->
                     IF c = new THEN df.rows[i][old] ELSE df.rows[i][c]]],
     cats |-> df.cats]

\* df[col] = series
SetColumn(df, col, series) ==
    [df EXCEPT !.rows = [i \in DOMAIN df.rows |-> [df.rows[i] EXCEPT ![col] = series[i]]]]

\* df[col] = <a pd.Categorical with these values and categories>
SetCategorical(df, col, cat) ==
    [SetColumn(df, col, cat.values) EXCEPT
        !.cats = [c \in (DOMAIN df.cats) \cup {col} |->
                     IF c = col THEN cat.categories ELSE df.cats[c]]]

Column(df, col) == [i \in DOMAIN df.rows |-> df.rows[i][col]]

\* numeric_series(df, col): pd.to_numeric(df[col], errors="coerce")
numeric_series(df, col) == [i \in DOMAIN df.rows |-> to_numeric(df.rows[i][col])]

(***************************************************************************)
(* The two ordinal attributes.                                             *)
(***************************************************************************)
DegreeOrder ==
    <<"PhD", "{kandidat}", "{doktor nauk}", "{doktor po profilw}", "{magistr}",
      "{ne imeet stepeni}", "{Znaqenie ne ukazano}", "NULL">>

DegreeMappingKeys ==
    {"phd", "{kandidat}", "{doktor nauk}", "{doktor po profilw}", "{magistr}",
     "{ne imeet stepeni}", "{znaqenie ne ukazano}", "null"}

\* mapping[k], for k a key of the mapping
DegreeMapping(k) ==
    CASE k = "phd" -> "PhD"
      [] k = "{znaqenie ne ukazano}" -> "{Znaqenie ne ukazano}"
      [] k = "null" -> "NULL"
      [] OTHER -> k

\* s = series.astype(str).replace({"nan": "NULL", "None": "NULL"}), and the
\* replacement of a cell that holds the column's other spelling
DegreeStr(x) ==
    LET a == astype_str(x)
        b == IF a \in {"nan", "None"} THEN "NULL" ELSE a
    IN  IF b = COL_DEGREE_ALT THEN COL_DEGREE ELSE b

\* s_mapped = s_norm.map(mapping).fillna(s)
DegreeMapped(x) ==
    LET s == DegreeStr(x)
        s_norm == str_lower(str_strip(s))
    IN  IF s_norm \in DegreeMappingKeys THEN DegreeMapping(s_norm) ELSE s

\* pd.Categorical(values, categories): a value that is no category is missing.
Categorical(values, categories) ==
    [values |-> [i \in DOMAIN values |->
                    IF values[i] \in Range(categories) THEN values[i] ELSE NaN],
     categories |-> categories]

Reverse(q) == [i \in DOMAIN q |-> q[Len(q) + 1 - i]]

\* order_degree with its rank table upside down
order_degree_reversed(series) ==
    Categorical([i \in DOMAIN series |-> DegreeMapped(series[i])], Reverse(DegreeOrder))

order_degree(series) ==
    Categorical([i \in DOMAIN series |-> DegreeMapped(series[i])], DegreeOrder)

\* The sort key of a label with no "start-end" in it: fillna(1e9).
UnknownStart == 1000000000

RECURSIVE SkipSpace(_, _)
SkipSpace(s, i) ==
    IF i <= Len(s) /\ CharAt(s, i) \in Whitespace THEN SkipSpace(s, i + 1) ELSE i

RECURSIVE RunEnd(_, _)
RunEnd(s, i) ==
    IF i < Len(s) /\ CharAt(s, i + 1) \in Digits THEN RunEnd(s, i + 1) ELSE i

IsDigitAt(s, i) == i >= 1 /\ i <= Len(s) /\ CharAt(s, i) \in Digits

\* (\d+)\s*-\s*(\d+) matches with its first group starting at i
MatchesAt(s, i) ==
    /\ IsDigitAt(s, i)
    /\ LET d == SkipSpace(s, RunEnd(s, i) + 1)
       IN  /\ d <= Len(s)
           /\ CharAt(s, d) = "-"
           /\ IsDigitAt(s, SkipSpace(s, d + 1))

\* The first group of the match that starts at i, as a number.
StartAt(s, i) == Num(ParseDigits(SubSeq(s, i, RunEnd(s, i)), 0))

\* The first group of the leftmost match at i or later, or missing.
RECURSIVE ExtractFrom(_, _)
ExtractFrom(s, i) ==
    IF i > Len(s) THEN NumNaN
    ELSE IF MatchesAt(s, i) THEN StartAt(s, i)
    ELSE ExtractFrom(s, i + 1)

\* s.str.extract(r"(\d+)\s*-\s*(\d+)")[0].astype(float) on one label: the
\* first group of the leftmost match, or missing.
ExtractStart(s) == ExtractFrom(s, 1)

\* The sort key with the unknown start filled with 0
StartKeyZero(label) ==
    IF num_isna(ExtractStart(label)) THEN 0 ELSE ExtractStart(label)[1]

\* .fillna(1e9)
fillna_start(start) == IF num_isna(start) THEN UnknownStart ELSE start[1]

\* starts.loc[idx].fillna(1e9)
StartKey(label) == fillna_start(ExtractStart(label))

\* s = series.fillna("NULL").astype(str)
AgeGroupStr(x) == IF isna(x) THEN "NULL" ELSE x

Injective(q) == \A i, j \in DOMAIN q : i # j => q[i] # q[j]

\* The lists of the elements of S, each once.
Orderings(S) ==
    {q \in [1..Cardinality(S) -> S] : Injective(q)}

\* [x for x in order if x != "NULL"] + ["NULL"]
NullLast(order) ==
    IF "NULL" \in Range(order)
    THEN SelectSeq(order, LAMBDA x : x # "NULL") \o <<"NULL">>
    ELSE order

\* The lists sort_values(key=...) can leave the labels in, 'NULL' then moved
\* last.  sort_values sorts with quicksort, which is not stable: labels with
\* equal keys come in either order.
sorted_by_key(labels, key) ==
    {NullLast(q) : q \in
        {p \in Orderings(labels) :
            \A i, j \in DOMAIN p : i < j => key[p[i]] <= key[p[j]]}}

\* The category lists order_age_group can build for a series: the labels by
\* ascending start, then 'NULL' moved last.
age_group_orders(series) ==
    sorted_by_key({AgeGroupStr(series[i]) : i \in DOMAIN series},
                  [l \in {AgeGroupStr(series[i]) : i \in DOMAIN series} |-> StartKey(l)])

\* order_age_group(series), for the category list the sort produced
order_age_group(series, order) ==
    Categorical([i \in DOMAIN series |-> AgeGroupStr(series[i])], order)

(***************************************************************************)
(* Filters.                                                                *)
(***************************************************************************)
\* sorted(df[col].dropna().astype(str).unique().tolist()), as a set
geo_options(df, col) ==
    {astype_str(r[col]) : r \in {q \in Range(df.rows) : ~isna(q[col])}}

\* df[df[col].astype(str).isin(sel)]
isin_str(df, col, sel) ==
    Mask(df, {r[INDEX] : r \in {q \in Range(df.rows) : astype_str(q[col]) \in sel}})

\* Variant: the candidates are read from the table as given.
narrow_not(df, col, sel) == df

\* filt1 / filt2 of the sidebar: the table narrowed by an upstream selection
narrow(df, col, sel) == IF sel = {} THEN df ELSE isin_str(df, col, sel)

apply_geo_cascade(df, sel_obl, sel_rn, sel_org) ==
    LET f0 == df
        f1 == IF COL_OBL \in f0.columns /\ sel_obl # {}
              THEN isin_str(f0, COL_OBL, sel_obl) ELSE f0
        f2 == IF COL_RN \in f1.columns /\ sel_rn # {}
              THEN isin_str(f1, COL_RN, sel_rn) ELSE f1
        f3 == IF COL_ORG \in f2.columns /\ sel_org # {}
              THEN isin_str(f2, COL_ORG, sel_org) ELSE f2
    IN  f3

\* with_null_display_options(df, col), as a set
with_null_display_options(df, col) ==
    IF col \in df.columns THEN {to_str_null(r[col]) : r \in Range(df.rows)} ELSE {}

\* Variant: no early return for an empty selection.
filter_by_multiselect_strict(df, col, chosen) ==
    Mask(df, {r[INDEX] : r \in {q \in Range(df.rows) : to_str_null(q[col]) \in chosen}})

\* Variant: a selection that would leave nothing is ignored as well.
filter_by_multiselect_unless_empty(df, col, chosen) ==
    LET kept == {r[INDEX] : r \in {q \in Range(df.rows) : to_str_null(q[col]) \in chosen}}
    IN  IF chosen = {} \/ kept = {} THEN df ELSE Mask(df, kept)

filter_by_multiselect(df, col, chosen) ==
    IF chosen = {} THEN df
    ELSE Mask(df, {r[INDEX] : r \in {q \in Range(df.rows) : to_str_null(q[col]) \in chosen}})

\* x >= lo and x <= hi on a float column: a comparison with NaN is False.
InRange(x, lo, hi) == ~num_isna(x) /\ x[1] >= lo /\ x[1] <= hi

\* filtered[(filtered[COL_AGE] >= sel_age[0]) & (filtered[COL_AGE] <= sel_age[1])]
filter_age(df, sel_age) ==
    Mask(df, {r[INDEX] : r \in {q \in Range(df.rows) :
                                   InRange(q[COL_AGE], sel_age[1], sel_age[2])}})

\* Variant: the rows with a missing outcome are kept.
keep_outcome_all(df) == df

\* filtered[filtered[OUTCOME_COL].notna()]
keep_outcome_notna(df) ==
    Mask(df, {r[INDEX] : r \in {q \in Range(df.rows) : ~num_isna(q[OUTCOME_COL])}})

(***************************************************************************)
(* Aggregation.  A group is [key, members, mean]: its key (one label per   *)
(* grouping column), the index labels of its rows, and the mean of the     *)
(* outcome over them in hundredths.                                        *)
(***************************************************************************)
\* The sum of a numeric column over the rows of members.
RECURSIVE SumOf(_, _, _)
SumOf(df, col, members) ==
    IF members = {} THEN 0
    ELSE LET i == CHOOSE k \in members : TRUE
             r == CHOOSE q \in Range(df.rows) : q[INDEX] = i
         IN  r[col][1] + SumOf(df, col, members \ {i})

\* The hundredths .round(2) can leave of the mean total / n.  Series.round(2)
\* is numpy's rint(x * 100) / 100 on the double x nearest to total / n.  Off a
\* tie it is the nearest hundredth.  A tie (2q + 1) / 200 that is exact in
\* binary (an odd number of eighths) goes to the even hundredth; any other
\* tie is no double, and the double next to it goes down or up.
round2(total, n) ==
    LET q == (100 * total) \div n
        r == (100 * total) % n
    IN  IF 2 * r < n THEN {q}
        ELSE IF 2 * r > n THEN {q + 1}
        ELSE IF (2 * q + 1) % 25 = 0 THEN {IF q % 2 = 0 THEN q ELSE q + 1}
        ELSE {q, q + 1}

\* The mean of a numeric column over the rows, rounded to hundredths, every
\* value it can have: missing numbers are skipped, the mean of none is missing.
mean_of(df, col, members) ==
    LET valued == {i \in members :
                      \E r \in Range(df.rows) : r[INDEX] = i /\ ~num_isna(r[col])}
    IN  IF valued = {} THEN {NumNaN}
        ELSE {Num(h) : h \in round2(SumOf(df, col, valued), Cardinality(valued))}

\* .mean().round(2) of the outcome over the rows.
mean_round2(df, members) == mean_of(df, OUTCOME_COL, members)

KeyOf(r, by) == [k \in DOMAIN by |-> r[by[k]]]

Position(x, q) == CHOOSE i \in DOMAIN q : q[i] = x

\* The order in which the columns stand in the sheets of the model (a table
\* holds its columns as a set): the outcome is the last column.
SHEET_COLUMNS ==
    <<COL_OBL, COL_RN, COL_ORG, COL_KURS, COL_POL, COL_AGE, COL_AGE_GROUP,
      COL_DEGREE, COL_DEGREE_ALT, OUTCOME_COL>>

\* The order of two different labels of a grouping column in a sorted groupby:
\* a Categorical by its categories, text by code points, the missing label last.
label_less(df, col, a, b) ==
    IF isna(a) THEN FALSE
    ELSE IF isna(b) THEN TRUE
    ELSE IF col \in DOMAIN df.cats
         THEN Position(a, df.cats[col]) < Position(b, df.cats[col])
         ELSE StrLess(a, b)

key_less(df, by, ka, kb) ==
    \E k \in DOMAIN by :
        /\ \A j \in 1..(k - 1) : ka[j] = kb[j]
        /\ ka[k] # kb[k]
        /\ label_less(df, by[k], ka[k], kb[k])

\* The labels of a grouping column that the result of a groupby lists: of a
\* Categorical every category (groupby's default observed=False), of a text
\* column the labels of the rows; the missing label when a row has it.
levels_of(df, col, rows) ==
    (IF col \in DOMAIN df.cats THEN Range(df.cats[col]) ELSE {})
        \cup {r[col] : r \in rows}

RECURSIVE from_product(_, _, _)
from_product(df, by, rows) ==
    IF Len(by) = 0 THEN {<<>>}
    ELSE {<<x>> \o k : x \in levels_of(df, Head(by), rows),
                        k \in from_product(df, Tail(by), rows)}

\* The keys of the result: the keys of the rows, and with a Categorical among
\* the grouping columns every combination of the levels.
group_keys(df, by, rows) ==
    IF \E k \in DOMAIN by : by[k] \in DOMAIN df.cats
    THEN from_product(df, by, rows)
    ELSE {KeyOf(r, by) : r \in rows}

\* The keys in the order of a sorted groupby (sort=True).
RECURSIVE sort_keys(_, _, _)
sort_keys(df, by, keys) ==
    IF keys = {} THEN <<>>
    ELSE LET first == CHOOSE k \in keys :
                          \A o \in keys \ {k} : key_less(df, by, k, o)
         IN  <<first>> \o sort_keys(df, by, keys \ {first})

\* The groups of the keys of sorted, in that order, with every value the
\* rounded means can have.
RECURSIVE groups_of(_, _, _, _)
groups_of(df, by, rows, sorted) ==
    IF Len(sorted) = 0 THEN {<<>>}
    ELSE LET members == {r[INDEX] : r \in {q \in rows : KeyOf(q, by) = Head(sorted)}}
         IN  {<<[key |-> Head(sorted), members |-> members, mean |-> m]>> \o rest :
                 m \in mean_round2(df, members),
                 rest \in groups_of(df, by, rows, Tail(sorted))}

\* df.groupby(by, dropna=dropna)[OUTCOME_COL].mean().round(2).reset_index(),
\* every result it can have: one group per key, in sorted key order, a key
\* with no row with a missing mean.  With dropna the rows with a missing
\* label in a grouping column belong to no group.
groupby_mean(df, by, dropna) ==
    LET rows == {r \in Range(df.rows) :
                    ~dropna \/ \A k \in DOMAIN by : ~isna(r[by[k]])}
        keys == group_keys(df, by, rows)
    IN  groups_of(df, by, rows, sort_keys(df, by, keys))

\* agg_mean(df, by_cols)
agg_mean(df, by_cols) == groupby_mean(df, by_cols, FALSE)

\* The groups that dropna(how="all") keeps: those with a mean.
dropna_all(groups) == SelectSeq(groups, LAMBDA g : ~num_isna(g.mean))

\* f.pivot_table(index=d1, columns=d2, values=OUTCOME_COL, aggfunc="mean")
\* and np.round(pivot.values, 2), cell by cell, the cells with a mean:
\* pivot_table groups with its default dropna=True and drops what is all
\* missing.
pivot_table_mean(df, d1, d2) ==
    {dropna_all(g) : g \in groupby_mean(df, <<d1, d2>>, TRUE)}

\* pivot_table(index=d1, columns=d1, ...), one column in both places.
\* pivot_table cuts the table to [d1, d1, OUTCOME_COL] only when that list
\* of three is shorter than the table's columns, and groups by [d1, d1].
\* The column of a table of three columns that is neither d1 nor the outcome.
pivot_other(df, d1) == CHOOSE c \in df.columns \ {d1, OUTCOME_COL} : TRUE

\* The call raises: on a table of more than three columns the cut leaves d1
\* twice and groupby refuses a key that names two columns; on a table of
\* three columns the mean is taken of the third column as well, and the mean
\* of a Categorical, or of a text column with a text among the grouped rows,
\* raises.
pivot_same_raises(df, d1) ==
    \/ Cardinality(df.columns) > 3
    \/ /\ Cardinality(df.columns) = 3
       /\ LET c == pivot_other(df, d1)
          IN  \/ c \in DOMAIN df.cats
              \/ /\ c # COL_AGE
                 /\ \E r \in Range(df.rows) : ~isna(r[d1]) /\ ~isna(r[c])

\* The cells of the pivot over the means of the column c and of the outcome:
\* the pivot has the levels of d1 once for each of the two, in the order of
\* the two columns in the table (c_first: c is to the left of the outcome).
RECURSIVE pivot_cells(_, _, _, _)
pivot_cells(df, c, groups, c_first) ==
    IF Len(groups) = 0 THEN {<<>>}
    ELSE {(IF c_first THEN <<[Head(groups) EXCEPT !.mean = m], Head(groups)>>
                      ELSE <<Head(groups), [Head(groups) EXCEPT !.mean = m]>>) \o rest :
             m \in mean_of(df, c, Head(groups).members),
             rest \in pivot_cells(df, c, Tail(groups), c_first)}

\* The pivots the call can build when it does not raise: of a table with the
\* age as its third column the mean age next to the mean outcome, cell by
\* cell; otherwise (no third column, or one that is all missing and is
\* dropped) the mean outcome.
pivot_table_same(df, d1) ==
    IF Cardinality(df.columns) = 3 /\ pivot_other(df, d1) = COL_AGE
    THEN UNION {{dropna_all(p) :
                    p \in pivot_cells(df, COL_AGE, g,
                        Position(COL_AGE, SHEET_COLUMNS) < Position(OUTCOME_COL, SHEET_COLUMNS))} :
                   g \in groupby_mean(df, <<d1, d1>>, TRUE)}
    ELSE pivot_table_mean(df, d1, d1)

\* g[col].astype(str).replace({"nan": "NULL"}) on the labels of the groups
labels_as_str(groups) ==
    [i \in DOMAIN groups |->
        [groups[i] EXCEPT !.key = [k \in DOMAIN @ |->
            IF astype_str(@[k]) = "nan" THEN "NULL" ELSE astype_str(@[k])]]]

\* The results sort_values(OUTCOME_COL, ascending) can give: by the mean, a
\* missing mean last; quicksort leaves groups of equal mean in either order.
sort_values(groups, ascending) ==
    {q \in Orderings(Range(groups)) :
        \A i, j \in DOMAIN q : i < j =>
            \/ num_isna(q[j].mean)
            \/ /\ ~num_isna(q[i].mean)
               /\ IF ascending THEN q[i].mean[1] <= q[j].mean[1]
                               ELSE q[i].mean[1] >= q[j].mean[1]}

(***************************************************************************)
(* The column lists of the script, cut to the columns of the model.        *)
(***************************************************************************)
\* candidate_filters (lines 192-196), in the order the filters are applied
CANDIDATE_FILTERS == <<COL_KURS, COL_POL, COL_AGE_GROUP, COL_DEGREE>>
\* the ranking selectbox (line 279)
RANK_COLS == {COL_KURS, COL_POL, COL_AGE_GROUP}
\* the demographics selectboxes (line 359)
DEMO_COLS == {COL_POL, COL_AGE_GROUP}
\* the professional selectboxes (line 401)
PROF_COLS == {COL_KURS, COL_DEGREE}

\* The slider's range when the age column holds no number (lines 208-209).
DefaultAgeMin == 0
DefaultAgeMax == 100

(***************************************************************************)
(* State.                                                                  *)
(***************************************************************************)
VARIABLES
    file,           \* df.xlsx: [exists, table]
    pc,             \* the position in the script
    df,             \* the loaded table
    rendered,       \* the elements the page shows so far
    opts_obl, sel_obl, opts_rn, sel_rn, opts_org, sel_org,
    other_filters,  \* column -> the chosen options
    sel_age,        \* <<lo, hi>>, or <<>> for None
    filtered,       \* the filtered dataframe
    f,              \* the copy a tab aggregates (gdf, f)
    agg,            \* the aggregate last handed to a chart or a table
    chart,          \* the place that built agg, "" for none
    by,             \* the columns agg is grouped by
    csv             \* the rows of the export

vars == <<file, pc, df, rendered, opts_obl, sel_obl, opts_rn, sel_rn, opts_org,
          sel_org, other_filters, sel_age, filtered, f, agg, chart, by, csv>>

NoFilters == [c \in {} |-> {}]

\* The script's globals before its first statement.
Fresh ==
    /\ pc = "load"
    /\ df = EmptyDataFrame
    /\ rendered = {}
    /\ opts_obl = {} /\ sel_obl = {}
    /\ opts_rn = {} /\ sel_rn = {}
    /\ opts_org = {} /\ sel_org = {}
    /\ other_filters = NoFilters
    /\ sel_age = <<>>
    /\ filtered = EmptyDataFrame
    /\ f = EmptyDataFrame
    /\ agg = <<>>
    /\ chart = ""
    /\ by = <<>>
    /\ csv = <<>>

sidebar_vars == <<opts_obl, sel_obl, opts_rn, sel_rn, opts_org, sel_org,
                  other_filters, sel_age>>
tab_vars == <<f, agg, chart, by, csv>>

(***************************************************************************)
(* 3) LOAD + PREP (lines 145-158).                                         *)
(***************************************************************************)
\* load_data(): the table of the file, or an error and an empty DataFrame
load_data(fl) ==
    IF fl.exists THEN [df |-> fl.table, errors |-> {}]
    ELSE [df |-> EmptyDataFrame, errors |-> {"error: file not found"}]

\* df = load_data(); if df.empty: st.stop()
Load ==
    /\ pc = "load"
    /\ df' = load_data(file).df
    /\ rendered' = rendered \cup load_data(file).errors
    /\ pc' = IF df_empty(df') THEN "stopped" ELSE "ensure_outcome"
    /\ UNCHANGED <<file, sidebar_vars, filtered, tab_vars>>

\* df = ensure_outcome(df)
EnsureOutcome ==
    /\ pc = "ensure_outcome"
    /\ IF OUTCOME_COL \notin df.columns
       THEN /\ rendered' = rendered \cup {"error: no outcome column"}
            /\ pc' = "stopped"
       ELSE /\ rendered' = rendered
            /\ pc' = "prep"
    /\ UNCHANGED <<file, df, sidebar_vars, filtered, tab_vars>>

\* the degree spelling and the numeric casting (lines 152-158)
prep(d) ==
    LET d1 == IF COL_DEGREE_ALT \in d.columns /\ COL_DEGREE \notin d.columns
              THEN RenameColumn(d, COL_DEGREE_ALT, COL_DEGREE) ELSE d
        d2 == SetColumn(d1, OUTCOME_COL, numeric_series(d1, OUTCOME_COL))
        d3 == IF COL_AGE \in d2.columns
              THEN SetColumn(d2, COL_AGE, numeric_series(d2, COL_AGE)) ELSE d2
    IN  d3

Prep ==
    /\ pc = "prep"
    /\ df' = prep(df)
    /\ pc' = "sidebar_geo"
    /\ UNCHANGED <<file, rendered, sidebar_vars, filtered, tab_vars>>

(***************************************************************************)
(* 4) SIDEBAR - FILTERS (lines 163-212).  A multiselect returns what the   *)
(* user has left selected of its options; untouched, its default, which is *)
(* every option.                                                           *)
(***************************************************************************)
\* The selections of a multiselect with at most n options deselected.
Selections(opts, n) == {s \in SUBSET opts : Cardinality(opts \ s) <= n}

Deselected(opts, sel) == Cardinality(opts \ sel)

SidebarGeo ==
    /\ pc = "sidebar_geo"
    /\ IF available(df, Range(GEO_COLS)) # {}
       THEN /\ opts_obl' = IF COL_OBL \in df.columns THEN geo_options(df, COL_OBL) ELSE {}
            /\ sel_obl' \in Selections(opts_obl', MaxDeselect)
            /\ LET filt1 == narrow(df, COL_OBL, sel_obl')
                   left1 == MaxDeselect - Deselected(opts_obl', sel_obl')
               IN  /\ opts_rn' = IF COL_RN \in df.columns
                                 THEN geo_options(filt1, COL_RN) ELSE {}
                   /\ sel_rn' \in Selections(opts_rn', left1)
                   /\ LET filt2 == narrow(filt1, COL_RN, sel_rn')
                          left2 == left1 - Deselected(opts_rn', sel_rn')
                      IN  /\ opts_org' = IF COL_ORG \in df.columns
                                         THEN geo_options(filt2, COL_ORG) ELSE {}
                          /\ sel_org' \in Selections(opts_org', left2)
            /\ rendered' = rendered \cup {"sidebar: geography"}
       ELSE /\ opts_obl' = {} /\ sel_obl' = {}
            /\ opts_rn' = {} /\ sel_rn' = {}
            /\ opts_org' = {} /\ sel_org' = {}
            /\ rendered' = rendered
    /\ pc' = "sidebar_other"
    /\ UNCHANGED <<file, df, other_filters, sel_age, filtered, tab_vars>>

GeoDeselected ==
    Deselected(opts_obl, sel_obl) + Deselected(opts_rn, sel_rn)
        + Deselected(opts_org, sel_org)

\* What the multiselects of the listed columns can return, column -> chosen,
\* with at most n options deselected in all.
RECURSIVE OtherSelections(_, _, _)
OtherSelections(d, cols, n) ==
    IF Len(cols) = 0 THEN {NoFilters}
    ELSE LET col == Head(cols)
             \* Prepare options with NULL visible; Default = all
             opts == with_null_display_options(d, col)
         IN  IF col \notin d.columns THEN OtherSelections(d, Tail(cols), n)
             ELSE UNION {{(col :> chosen) @@ rest :
                             rest \in OtherSelections(d, Tail(cols),
                                                      n - Deselected(opts, chosen))} :
                         chosen \in Selections(opts, n)}

SidebarOther ==
    /\ pc = "sidebar_other"
    /\ other_filters' \in OtherSelections(df, CANDIDATE_FILTERS, MaxDeselect - GeoDeselected)
    /\ rendered' = rendered \cup {"sidebar: other filters"}
    /\ pc' = "sidebar_age"
    /\ UNCHANGED <<file, df, opts_obl, sel_obl, opts_rn, sel_rn, opts_org, sel_org,
                   sel_age, filtered, tab_vars>>

Ages(d) == {r[COL_AGE][1] : r \in {q \in Range(d.rows) : ~num_isna(q[COL_AGE])}}

Min(S) == CHOOSE x \in S : \A y \in S : x <= y
Max(S) == CHOOSE x \in S : \A y \in S : x >= y

\* vmin, vmax (lines 208-209)
age_vmin(d) == IF Ages(d) # {} THEN Min(Ages(d)) ELSE DefaultAgeMin
age_vmax(d) == IF Ages(d) # {} THEN Max(Ages(d)) ELSE DefaultAgeMax

\* An exception that no handler catches: the page shows it and the run ends.
Exception == "exception"

\* The integer positions of an end of the slider that is moved at most
\* MaxSlide from its default: st.slider(min_value=vmin, max_value=vmax,
\* value=(vmin, vmax)) returns a pair of integers lo <= hi in vmin..vmax.
\* With vmin = vmax (one age in the column) the slider has no range: the call
\* raises and returns no value.
SliderLow(d) ==
    IF age_vmin(d) = age_vmax(d) THEN {}
    ELSE age_vmin(d)..(IF age_vmax(d) <= age_vmin(d) + MaxSlide THEN age_vmax(d)
                       ELSE age_vmin(d) + MaxSlide)
SliderHigh(d) ==
    IF age_vmin(d) = age_vmax(d) THEN {}
    ELSE (IF age_vmin(d) >= age_vmax(d) - MaxSlide THEN age_vmin(d)
          ELSE age_vmax(d) - MaxSlide)..age_vmax(d)

\* Lines 206-212.  The slider call of line 210 raises when vmin = vmax, and
\* the run ends there, with the subheader of line 207 on the page and before
\* the filtered view is built.
SidebarAge ==
    /\ pc = "sidebar_age"
    /\ IF COL_AGE \notin df.columns
       THEN /\ sel_age' = <<>>
            /\ rendered' = rendered
            /\ pc' = "build_geo"
       ELSE IF age_vmin(df) = age_vmax(df)
       THEN /\ sel_age' = sel_age
            /\ rendered' = rendered \cup {"sidebar: age", Exception}
            /\ pc' = "stopped"
       ELSE /\ \E lo \in SliderLow(df), hi \in SliderHigh(df) :
                    lo <= hi /\ sel_age' = <<lo, hi>>
            /\ rendered' = rendered \cup {"sidebar: age"}
            /\ pc' = "build_geo"
    /\ UNCHANGED <<file, df, opts_obl, sel_obl, opts_rn, sel_rn, opts_org, sel_org,
                   other_filters, filtered, tab_vars>>

(***************************************************************************)
(* Build filtered dataframe (lines 215-228).                               *)
(***************************************************************************)
BuildGeo ==
    /\ pc = "build_geo"
    /\ filtered' = apply_geo_cascade(df, sel_obl, sel_rn, sel_org)
    /\ pc' = "build_other"
    /\ UNCHANGED <<file, df, rendered, sidebar_vars, tab_vars>>

\* for col, chosen in other_filters.items(): filtered = filter_by_multiselect(...)
RECURSIVE apply_other_filters(_, _, _)
apply_other_filters(d, cols, chosen) ==
    IF Len(cols) = 0 THEN d
    ELSE apply_other_filters(
             IF Head(cols) \in DOMAIN chosen
             THEN filter_by_multiselect(d, Head(cols), chosen[Head(cols)]) ELSE d,
             Tail(cols), chosen)

BuildOther ==
    /\ pc = "build_other"
    /\ filtered' = apply_other_filters(filtered, CANDIDATE_FILTERS, other_filters)
    /\ pc' = "build_age"
    /\ UNCHANGED <<file, df, rendered, sidebar_vars, tab_vars>>

\* if sel_age and COL_AGE in filtered.columns: a tuple of two is true
apply_age_filter(d, age) ==
    IF age # <<>> /\ COL_AGE \in d.columns THEN filter_age(d, age) ELSE d

BuildAge ==
    /\ pc = "build_age"
    /\ filtered' = apply_age_filter(filtered, sel_age)
    /\ pc' = "build_notna"
    /\ UNCHANGED <<file, df, rendered, sidebar_vars, tab_vars>>

BuildNotNa ==
    /\ pc = "build_notna"
    /\ filtered' = keep_outcome_notna(filtered)
    /\ pc' = "guard"
    /\ UNCHANGED <<file, df, rendered, sidebar_vars, tab_vars>>

\* Guard empty (lines 226-228)
GuardEmpty ==
    /\ pc = "guard"
    /\ IF df_empty(filtered)
       THEN /\ rendered' = rendered \cup {"warning: no data"}
            /\ pc' = "stopped"
       ELSE /\ rendered' = rendered
            /\ pc' = "header"
    /\ UNCHANGED <<file, df, sidebar_vars, filtered, tab_vars>>

(***************************************************************************)
(* 5) HEADER + KPI, 6) TABS.                                               *)
(***************************************************************************)
HeaderKpi ==
    /\ pc = "header"
    /\ rendered' = rendered \cup {"kpi"}
    /\ pc' = "tab_overview"
    /\ UNCHANGED <<file, df, sidebar_vars, filtered, tab_vars>>

\* gdf of the overview tab (lines 283-287), for the category list cats
overview_gdf(d, rank_col, cats) ==
    LET g1 == IF rank_col = COL_DEGREE
              THEN SetCategorical(d, rank_col, order_degree(Column(d, rank_col))) ELSE d
        g2 == IF rank_col = COL_AGE_GROUP
              THEN SetCategorical(g1, rank_col, order_age_group(Column(g1, rank_col), cats))
              ELSE g1
    IN  g2

\* The category lists the tab's order_age_group call can give; one empty list
\* when the tab does not call it.
AgeOrders(d, called) ==
    IF called THEN age_group_orders(Column(d, COL_AGE_GROUP)) ELSE {<<>>}

\* ranked (lines 289-291), for the order the sort left
overview_ranked(gdf, rank_col) ==
    UNION {sort_values(labels_as_str(g), TRUE) :
              g \in groupby_mean(gdf, <<rank_col>>, FALSE)}

TabOverview ==
    /\ pc = "tab_overview"
    /\ LET cat_cols == available(filtered, RANK_COLS)
       IN  IF cat_cols = {}
           THEN UNCHANGED <<f, agg, chart, by>>
           ELSE \E rank_col \in cat_cols :
                \E cats \in AgeOrders(filtered, rank_col = COL_AGE_GROUP) :
                    /\ f' = overview_gdf(filtered, rank_col, cats)
                    /\ agg' \in overview_ranked(f', rank_col)
                    /\ chart' = "overview: ranking"
                    /\ by' = <<rank_col>>
    /\ rendered' = rendered \cup {"tab: overview"}
    /\ pc' = "tab_geo"
    /\ UNCHANGED <<file, df, sidebar_vars, filtered, csv>>

\* geo_mean (line 345), for the order the sort left; head(10) and tail(10) show
\* all of it while it has at most ten groups.
geo_mean(d, level) ==
    UNION {sort_values(g, FALSE) : g \in agg_mean(d, <<level>>)}

TabGeo ==
    /\ pc = "tab_geo"
    /\ LET geo_sel_cols == available(filtered, Range(GEO_COLS))
       IN  IF geo_sel_cols = {}
           THEN UNCHANGED <<f, agg, chart, by>>
           ELSE \E geo_group_level \in geo_sel_cols :
                    /\ agg' \in geo_mean(filtered, geo_group_level)
                    /\ chart' = "geography: mean table"
                    /\ by' = <<geo_group_level>>
                    /\ f' = filtered
    /\ rendered' = rendered \cup {"tab: geography"}
    /\ pc' = "tab_demo"
    /\ UNCHANGED <<file, df, sidebar_vars, filtered, csv>>

\* f of the demographics tab (lines 371-375)
demo_f(d, cats) ==
    LET f1 == IF COL_AGE_GROUP \in d.columns
              THEN SetCategorical(d, COL_AGE_GROUP,
                                  order_age_group(Column(d, COL_AGE_GROUP), cats))
              ELSE d
        f2 == IF COL_DEGREE \in f1.columns
              THEN SetCategorical(f1, COL_DEGREE, order_degree(Column(f1, COL_DEGREE)))
              ELSE f1
    IN  f2

\* The second selectbox: "(net)" or a column, the column of the first
\* selectbox too.
None == "(net)"

\* With one column in both selectboxes pivot_table(index=d1, columns=d1)
\* raises or builds a pivot over that column, by the columns of the table.
TabDemo ==
    /\ pc = "tab_demo"
    /\ LET dcols == available(filtered, DEMO_COLS)
       IN  IF dcols = {}
           THEN /\ rendered' = rendered \cup {"tab: demographics"}
                /\ pc' = "tab_prof"
                /\ UNCHANGED <<f, agg, chart, by>>
           ELSE \E d1 \in dcols, d2 \in {None} \cup dcols :
                \E cats \in AgeOrders(filtered, COL_AGE_GROUP \in filtered.columns) :
                    /\ f' = demo_f(filtered, cats)
                    /\ \/ /\ d2 \notin {None, d1}
                          /\ agg' \in pivot_table_mean(f', d1, d2)
                          /\ chart' = "demographics: heatmap"
                          /\ by' = <<d1, d2>>
                          /\ rendered' = rendered \cup {"tab: demographics"}
                          /\ pc' = "tab_prof"
                       \/ /\ d2 = d1
                          /\ ~pivot_same_raises(f', d1)
                          /\ agg' \in pivot_table_same(f', d1)
                          /\ chart' = "demographics: heatmap"
                          /\ by' = <<d1, d2>>
                          /\ rendered' = rendered \cup {"tab: demographics"}
                          /\ pc' = "tab_prof"
                       \/ /\ d2 = d1
                          /\ pivot_same_raises(f', d1)
                          /\ rendered' = rendered \cup {"tab: demographics", Exception}
                          /\ pc' = "stopped"
                          /\ UNCHANGED <<agg, chart, by>>
                       \/ /\ d2 = None
                          /\ agg' = <<>>
                          /\ chart' = "demographics: violin"
                          /\ by' = <<d1>>
                          /\ rendered' = rendered \cup {"tab: demographics"}
                          /\ pc' = "tab_prof"
    /\ UNCHANGED <<file, df, sidebar_vars, filtered, csv>>

\* f of the professional tab (lines 414-417)
prof_f(d) ==
    IF COL_DEGREE \in d.columns
    THEN SetCategorical(d, COL_DEGREE, order_degree(Column(d, COL_DEGREE))) ELSE d

\* avg (line 421)
prof_avg(d, p1, p2) == groupby_mean(d, <<p1, p2>>, FALSE)

\* With one column in both selectboxes line 421 groups by it twice and
\* reset_index() raises: the column it inserts is there already.
TabProf ==
    /\ pc = "tab_prof"
    /\ LET pcols == available(filtered, PROF_COLS)
       IN  IF pcols = {}
           THEN /\ rendered' = rendered \cup {"tab: professional"}
                /\ pc' = "tab_compare"
                /\ UNCHANGED <<f, agg, chart, by>>
           ELSE \E p1 \in pcols, p2 \in {None} \cup pcols :
                    /\ f' = prof_f(filtered)
                    /\ IF p2 = p1
                       THEN /\ rendered' = rendered \cup {"tab: professional", Exception}
                            /\ pc' = "stopped"
                            /\ UNCHANGED <<agg, chart, by>>
                       ELSE /\ rendered' = rendered \cup {"tab: professional"}
                            /\ pc' = "tab_compare"
                            /\ IF p2 # None
                               THEN /\ agg' \in prof_avg(f', p1, p2)
                                    /\ chart' = "professional: grouped bars"
                                    /\ by' = <<p1, p2>>
                               ELSE /\ agg' = <<>>
                                    /\ chart' = "professional: box"
                                    /\ by' = <<p1>>
    /\ UNCHANGED <<file, df, sidebar_vars, filtered, csv>>

\* all_cat_cols (line 460): cat_cols and pcols are set by the tabs before.
all_cat_cols(d) == available(d, RANK_COLS \cup PROF_COLS)

\* levels (line 466), as a set
levels(d, col) == {to_str_null(r[col]) : r \in Range(d.rows)}

\* mask_level(dfX, col, lvl).assign(_group=g), the rows
mask_level(d, col, lvl, g) ==
    [i \in DOMAIN SelectSeq(d.rows, LAMBDA r : to_str_null(r[col]) = lvl) |->
        SelectSeq(d.rows, LAMBDA r : to_str_null(r[col]) = lvl)[i] @@ (GROUP_COL :> g)]

\* cmp_df = pd.concat([A, B], ignore_index=True) (lines 479-481)
cmp_df(d, col, lvl_a, lvl_b) ==
    [columns |-> d.columns \cup {GROUP_COL},
     rows |-> [i \in DOMAIN (mask_level(d, col, lvl_a, "A") \o mask_level(d, col, lvl_b, "B")) |->
                  [(mask_level(d, col, lvl_a, "A") \o mask_level(d, col, lvl_b, "B"))[i]
                      EXCEPT ![INDEX] = i - 1]],
     cats |-> d.cats]

\* avg2 (line 497)
avg2(d, second_dim) == groupby_mean(d, <<GROUP_COL, second_dim>>, FALSE)

\* The comparison tab (lines 456-505).  A stratum is a level of the column,
\* so cmp_df has a row and the else branch of line 483 runs.
TabCompare ==
    /\ pc = "tab_compare"
    /\ IF all_cat_cols(filtered) = {}
       THEN UNCHANGED <<f, agg, chart, by>>
       ELSE \E cmp_dim \in all_cat_cols(filtered) :
            \E lvl_a, lvl_b \in levels(filtered, cmp_dim) :
            \E second_dim \in {None} \cup (all_cat_cols(filtered) \ {cmp_dim}) :
                /\ f' = cmp_df(filtered, cmp_dim, lvl_a, lvl_b)
                /\ IF second_dim # None
                   THEN /\ agg' \in avg2(f', second_dim)
                        /\ chart' = "comparison: grouped bars"
                        /\ by' = <<GROUP_COL, second_dim>>
                   ELSE /\ agg' = <<>>
                        /\ chart' = "comparison: violin"
                        /\ by' = <<GROUP_COL>>
    /\ rendered' = rendered \cup {"tab: comparison"}
    /\ pc' = "tab_data"
    /\ UNCHANGED <<file, df, sidebar_vars, filtered, csv>>

\* the data table and filtered.to_csv (lines 511-521)
TabData ==
    /\ pc = "tab_data"
    /\ csv' = filtered.rows
    /\ rendered' = rendered \cup {"tab: data"}
    /\ pc' = "done"
    /\ UNCHANGED <<file, df, sidebar_vars, filtered, f, agg, chart, by>>

\* The user touches a widget, or reloads: the script runs again from its top.
\* load_data is cached, the file is read as before.
Rerun ==
    /\ pc \in {"done", "stopped"}
    /\ pc' = "load"
    /\ df' = EmptyDataFrame
    /\ rendered' = {}
    /\ opts_obl' = {} /\ sel_obl' = {}
    /\ opts_rn' = {} /\ sel_rn' = {}
    /\ opts_org' = {} /\ sel_org' = {}
    /\ other_filters' = NoFilters
    /\ sel_age' = <<>>
    /\ filtered' = EmptyDataFrame
    /\ f' = EmptyDataFrame
    /\ agg' = <<>>
    /\ chart' = ""
    /\ by' = <<>>
    /\ csv' = <<>>
    /\ UNCHANGED file

Next ==
    \/ Load
    \/ EnsureOutcome
    \/ Prep
    \/ SidebarGeo
    \/ SidebarOther
    \/ SidebarAge
    \/ BuildGeo
    \/ BuildOther
    \/ BuildAge
    \/ BuildNotNa
    \/ GuardEmpty
    \/ HeaderKpi
    \/ TabOverview
    \/ TabGeo
    \/ TabDemo
    \/ TabProf
    \/ TabCompare
    \/ TabData
    \/ Rerun

(***************************************************************************)
(* The files the script is run on.  A family of files is every table of 1  *)
(* to MaxRows rows over a set of columns, each cell drawn from the cells   *)
(* listed for its column; the index labels are 0, 1, ...                   *)
(***************************************************************************)
RowsAt(cols, cells, i) ==
    {(INDEX :> i) @@ r : r \in {q \in [cols -> UNION {cells[c] : c \in cols}] :
                                   \A c \in cols : q[c] \in cells[c]}}

RECURSIVE RowLists(_, _, _)
RowLists(cols, cells, n) ==
    IF n = 0 THEN {<<>>}
    ELSE {Append(q, r) : q \in RowLists(cols, cells, n - 1),
                         r \in RowsAt(cols, cells, n - 1)}

File(cols, rows) ==
    [exists |-> TRUE, table |-> [columns |-> cols, rows |-> rows, cats |-> NoCats]]

Family(cells) ==
    {File(DOMAIN cells, rows) :
        rows \in UNION {RowLists(DOMAIN cells, cells, n) : n \in 1..MaxRows}}

MissingFile == [exists |-> FALSE, table |-> EmptyDataFrame]

\* The startup cases: no file, a sheet with no rows (with and without the
\* outcome column), a table without the outcome column, the other spelling of
\* the degree column.
StartupFiles ==
    {MissingFile,
     File({OUTCOME_COL, COL_POL}, <<>>),
     File({COL_POL}, <<>>)}
    \cup Family((COL_POL :> {"M", NaN}))
    \cup Family((COL_DEGREE_ALT :> {"PhD", "{bakalavr}"}) @@ (OUTCOME_COL :> {"50"}))

GeoFiles ==
    Family((COL_OBL :> {"A", "B", NaN}) @@ (COL_RN :> {"r", "s", NaN})
           @@ (COL_ORG :> {"o", NaN}) @@ (OUTCOME_COL :> {"50"}))

FilterFiles ==
    Family((COL_KURS :> {"k1", "k2"}) @@ (COL_POL :> {"M", NaN})
           @@ (COL_AGE :> {"30", "32", NaN}) @@ (OUTCOME_COL :> {"50"}))

\* The tables of the family and, with them, tables of three rows that hold
\* two ages: a row of age 30, a row of age 31 and a third row.
NumericFiles ==
    LET cells == (COL_POL :> {"M", "F"}) @@ (COL_AGE :> {"30", "31", "abc", NaN})
                     @@ (OUTCOME_COL :> {"50", "abc", NaN})
    IN  Family(cells)
        \cup {File(DOMAIN cells, <<a, b, c>>) :
                 a \in {r \in RowsAt(DOMAIN cells, cells, 0) :
                            r[COL_POL] = "M" /\ r[COL_AGE] = "30" /\ r[OUTCOME_COL] = "50"},
                 b \in {r \in RowsAt(DOMAIN cells, cells, 1) : r[COL_AGE] = "31"},
                 c \in RowsAt(DOMAIN cells, cells, 2)}

AggFiles ==
    Family((COL_POL :> {"M", NaN}) @@ (COL_AGE_GROUP :> {"10-19", "20-29", NaN})
           @@ (COL_DEGREE :> {" PHD", "{bakalavr}"}) @@ (OUTCOME_COL :> {"50", "90"}))
    \cup
    Family((COL_KURS :> {"k1", NaN}) @@ (COL_DEGREE :> {"{magistr}", "PhD", "{docent}", NaN})
           @@ (OUTCOME_COL :> {"50", "90"}))

\* The scores of the rows of a table that holds every label once.
Scores == <<"50", "60", "70", "80">>

\* The tables that hold some of the labels in column col, each once, in every
\* order; the other columns hold the same cell in every row.
OrderedFiles(col, labels, other) ==
    {File({col, OUTCOME_COL} \cup DOMAIN other,
          [i \in DOMAIN q |->
              (INDEX :> i - 1) @@ (col :> q[i]) @@ (OUTCOME_COL :> Scores[i]) @@ other]) :
        q \in UNION {Orderings(T) : T \in (SUBSET labels) \ {{}}}}

\* Different degrees in every order; degrees in other case and padding, and
\* the missing cell.
DegreeFiles ==
    OrderedFiles(COL_DEGREE, {"{magistr}", "PhD", "{kandidat}", "{doktor nauk}"},
                 (COL_KURS :> "k1"))
    \cup
    Family((COL_KURS :> {"k1"})
           @@ (COL_DEGREE :> {" PHD", "{Magistr} ", "PhD", "Null", NaN})
           @@ (OUTCOME_COL :> {"50"}))

\* Different age brackets in every order; brackets with spaces and with text
\* before them, free text, the missing cell, and a start that is not below
\* the sentinel of the sort.
AgeGroupFiles ==
    OrderedFiles(COL_AGE_GROUP, {"30-39", "10-19", "unknown", "20-29"},
                 (COL_POL :> "M"))
    \cup
    Family((COL_POL :> {"M"})
           @@ (COL_AGE_GROUP :> {"5 - 9", "60+", "{ot} 20-29", NaN,
                                 "2000000000-2000000009"})
           @@ (OUTCOME_COL :> {"50"}))

InitGeo == file \in GeoFiles \cup StartupFiles /\ Fresh
InitFilter == file \in FilterFiles \cup StartupFiles /\ Fresh
InitNumeric == file \in NumericFiles \cup StartupFiles /\ Fresh
InitAgg == file \in AggFiles \cup StartupFiles /\ Fresh
InitDegree == file \in DegreeFiles \cup StartupFiles /\ Fresh
InitAgeGroup == file \in AgeGroupFiles \cup StartupFiles /\ Fresh
Init == file \in StartupFiles /\ Fresh

\* The script on the startup files alone.
Spec == Init /\ [][Next]_vars
\* The geographic cascade.
SpecGeo == InitGeo /\ [][Next]_vars
\* The independent filters.
SpecFilter == InitFilter /\ [][Next]_vars
\* Numeric columns with entries that are no numbers.
SpecNumeric == InitNumeric /\ [][Next]_vars
\* Grouping and the ordinal attributes.
SpecAgg == InitAgg /\ [][Next]_vars
\* The degree column put in order.
SpecDegree == InitDegree /\ [][Next]_vars
\* The age bracket column put in order.
SpecAgeGroup == InitAgeGroup /\ [][Next]_vars

(***************************************************************************)
(* Properties.                                                             *)
(***************************************************************************)
Building == {"build_other", "build_age", "build_notna", "guard"}
Rendering == {"header", "tab_overview", "tab_geo", "tab_demo", "tab_prof", "tab_compare",
              "tab_data", "done"}
\* The charts and tables that are handed an aggregate of the filtered view,
\* and those with the aggregate of the two strata of the comparison.
AggCharts == {"overview: ranking", "geography: mean table", "demographics: heatmap",
              "professional: grouped bars"}
GroupedCharts == AggCharts \cup {"comparison: grouped bars"}
Errors == {"error: file not found", "error: no outcome column"}

\* The rows of the table that apply_geo_cascade left, as the build has them
\* once the geographic step is done.
GeoFiltered == apply_geo_cascade(df, sel_obl, sel_rn, sel_org)

\* The options a multiselect of an independent attribute offers.
OtherOptions(col) == with_null_display_options(df, col)

\* A row satisfies the selections of the geographic cascade (empty = all).
GeoPass(r) ==
    /\ COL_OBL \in df.columns /\ sel_obl # {} => astype_str(r[COL_OBL]) \in sel_obl
    /\ COL_RN \in df.columns /\ sel_rn # {} => astype_str(r[COL_RN]) \in sel_rn
    /\ COL_ORG \in df.columns /\ sel_org # {} => astype_str(r[COL_ORG]) \in sel_org

\* A row satisfies the non-empty selections of the independent attributes.
OtherPass(r) ==
    \A c \in DOMAIN other_filters :
        other_filters[c] = {} \/ to_str_null(r[c]) \in other_filters[c]

AgePass(r) ==
    sel_age = <<>> \/ (r[COL_AGE] # NumNaN /\ r[COL_AGE][1] >= sel_age[1]
                                          /\ r[COL_AGE][1] <= sel_age[2])

OutcomePass(r) == r[OUTCOME_COL] # NumNaN

\* C1 as claimed: once the filtered view is built, an empty chosen set on an
\* independent attribute has left it with zero rows.
C1_EmptySelectionGivesNoRows ==
    pc = "guard" =>
        \A c \in DOMAIN other_filters :
            other_filters[c] = {} => Len(filtered.rows) = 0

\* The filtered view the build gives with no filter on the attribute c: the
\* geographic cascade, the other independent multiselects, the age range and
\* the outcome-not-null step.
ViewWithout(c) ==
    keep_outcome_notna(
        apply_age_filter(
            apply_other_filters(GeoFiltered, CANDIDATE_FILTERS,
                                [x \in (DOMAIN other_filters) \ {c} |-> other_filters[x]]),
            sel_age))

\* C1 amended: an empty chosen set on an independent attribute filters nothing:
\* after the independent filters the table holds exactly the rows it was given
\* that match every non-empty selection, and the filtered view, once built,
\* holds the rows it would hold with no filter on that attribute.
C1_EmptySelectionIsNoOp ==
    /\ pc = "build_age" =>
          /\ IndexSet(filtered)
                 = {r[INDEX] : r \in {q \in Range(GeoFiltered.rows) : OtherPass(q)}}
          /\ (\A c \in DOMAIN other_filters : other_filters[c] = {})
                 => filtered.rows = GeoFiltered.rows
    /\ pc = "guard" =>
          \A c \in DOMAIN other_filters :
              other_filters[c] = {} => filtered.rows = ViewWithout(c).rows

\* An attribute with two options is cleared and both rows of the table are in
\* the filtered view.
C1_Witness ==
    /\ pc = "guard"
    /\ \E c \in DOMAIN other_filters :
           other_filters[c] = {} /\ Cardinality(OtherOptions(c)) = 2
    /\ Len(filtered.rows) = 2

\* C2: a multiselect left at its default of every offered option is a no-op:
\* with the three geographic multiselects at their defaults the geographic step
\* returns the table it was given, and with every independent multiselect at
\* its default the independent step returns the rows it was given.
C2_DefaultAllIsNoOp ==
    /\ (pc = "build_other" /\ sel_obl = opts_obl /\ sel_rn = opts_rn /\ sel_org = opts_org)
           => filtered.rows = df.rows
    /\ (pc = "build_age" /\ \A c \in DOMAIN other_filters : other_filters[c] = OtherOptions(c))
           => filtered.rows = GeoFiltered.rows

\* Every geographic multiselect is at its default, regions are offered, and a
\* row with no region is gone from the view.
C2_Witness ==
    /\ pc = "build_other"
    /\ sel_obl = opts_obl /\ sel_rn = opts_rn /\ sel_org = opts_org
    /\ opts_obl # {}
    /\ \E r \in Range(df.rows) : isna(r[COL_OBL]) /\ r[INDEX] \notin IndexSet(filtered)

\* The independent filters of the cycle: the multiselects and the age range.
IndependentFilters ==
    DOMAIN other_filters \cup (IF COL_AGE \in df.columns THEN {COL_AGE} ELSE {})

ApplyFilter(d, id) ==
    IF id = COL_AGE THEN apply_age_filter(d, sel_age)
    ELSE filter_by_multiselect(d, id, other_filters[id])

RECURSIVE ApplyInOrder(_, _)
ApplyInOrder(d, ids) ==
    IF Len(ids) = 0 THEN d ELSE ApplyInOrder(ApplyFilter(d, Head(ids)), Tail(ids))

\* C3: the independent filters commute: applied to the table the geographic
\* step left, in any order, they give the rows the build gives.
C3_IndependentFiltersCommute ==
    pc = "build_notna" =>
        \A order \in Orderings(IndependentFilters) :
            ApplyInOrder(GeoFiltered, order).rows = filtered.rows

\* Two different filters each drop a row the other keeps.
C3_Witness ==
    /\ pc = "build_notna"
    /\ \E a, b \in IndependentFilters :
           /\ a # b
           /\ \E r \in Range(df.rows) :
                  /\ r[INDEX] \notin IndexSet(ApplyFilter(GeoFiltered, a))
                  /\ r[INDEX] \in IndexSet(ApplyFilter(GeoFiltered, b))
           /\ \E r \in Range(df.rows) :
                  /\ r[INDEX] \in IndexSet(ApplyFilter(GeoFiltered, a))
                  /\ r[INDEX] \notin IndexSet(ApplyFilter(GeoFiltered, b))

\* A row matches a geographic selection; the cascade reads an empty selection
\* as all.
Matches(r, col, sel) == sel = {} \/ astype_str(r[col]) \in sel

AfterSidebarGeo == {"sidebar_other", "sidebar_age"} \cup Building \cup Rendering

\* C4: cascade monotonicity: every district offered occurs in a row whose
\* region matches the region selection, and every organization offered occurs
\* in a row that matches the region and the district selection.
C4_CascadeMonotonicity ==
    pc \in AfterSidebarGeo =>
        /\ \A d \in opts_rn :
               \E r \in Range(df.rows) :
                   /\ ~isna(r[COL_RN]) /\ astype_str(r[COL_RN]) = d
                   /\ Matches(r, COL_OBL, sel_obl)
        /\ \A o \in opts_org :
               \E r \in Range(df.rows) :
                   /\ ~isna(r[COL_ORG]) /\ astype_str(r[COL_ORG]) = o
                   /\ Matches(r, COL_OBL, sel_obl)
                   /\ Matches(r, COL_RN, sel_rn)

\* One of two regions is selected and a district of the table is not offered;
\* one of two offered districts is selected and an organization is not offered.
C4_Witness ==
    /\ pc = "sidebar_other"
    /\ sel_obl # {} /\ sel_obl # opts_obl
    /\ opts_rn # geo_options(df, COL_RN)
    /\ opts_rn # {}

\* The index labels of the rows of the groups whose label for the k-th grouping
\* column is x.
MembersWithLabel(k, x) ==
    UNION {agg[i].members : i \in {j \in DOMAIN agg : agg[j].key[k] = x}}

\* C5: no silent drop of missing group keys: when the filtered view has been
\* aggregated by one or two grouping attributes, every row of the view is in
\* a group, and the rows with a missing value in a grouping attribute are
\* exactly the rows of the groups labelled 'NULL' for that attribute.
C5_NoSilentDrop ==
    chart \in AggCharts =>
        /\ \A r \in Range(filtered.rows) :
               \E i \in DOMAIN agg : r[INDEX] \in agg[i].members
        /\ \A k \in DOMAIN by :
               LET missing == {r[INDEX] : r \in {q \in Range(filtered.rows) : isna(q[by[k]])}}
               IN  missing # {} => MembersWithLabel(k, "NULL") = missing

\* The heatmap's pivot has a group, and a row of the view with no value for the
\* sex is in none.
C5_Witness ==
    /\ chart = "demographics: heatmap"
    /\ Len(agg) > 0
    /\ \E r \in Range(filtered.rows) :
           /\ isna(r[COL_POL])
           /\ \A i \in DOMAIN agg : r[INDEX] \notin agg[i].members

\* The filtered view as the claims describe it: the rows of the table that
\* pass every filter and have an outcome.
FullyFiltered ==
    {r[INDEX] : r \in {q \in Range(df.rows) :
        GeoPass(q) /\ OtherPass(q) /\ AgePass(q) /\ OutcomePass(q)}}

Tabs == {"tab: overview", "tab: geography", "tab: demographics", "tab: professional",
         "tab: comparison", "tab: data"}

\* C6: a cycle that has rendered the KPIs, a tab or an aggregate works on the
\* view left by all the filters and the exclusion of missing outcomes, and
\* that view has rows; a cycle whose view has no rows has issued the warning
\* and halted with no KPI, tab or aggregate; and from the sidebar on the
\* loaded table is the prepared table of the file.
C6_AggregateAfterFilters ==
    /\ (pc \in Rendering \/ "kpi" \in rendered \/ rendered \cap Tabs # {} \/ chart # "")
           => /\ IndexSet(filtered) = FullyFiltered
              /\ Len(filtered.rows) > 0
              /\ "warning: no data" \notin rendered
    /\ "warning: no data" \in rendered
           => /\ pc = "stopped"
              /\ FullyFiltered = {}
              /\ "kpi" \notin rendered /\ rendered \cap Tabs = {}
              /\ chart = "" /\ agg = <<>> /\ csv = <<>>
    /\ pc \in AfterSidebarGeo \/ "warning: no data" \in rendered
           => df = prep(file.table)

\* The filters left no row of a table that has rows: the warning is up and the
\* cycle has halted.
C6_Witness ==
    /\ pc = "stopped"
    /\ "warning: no data" \in rendered
    /\ Len(df.rows) = 2
    /\ \E r \in Range(df.rows) : OutcomePass(r)

\* C7: fatal startup: with the file missing, or the outcome column absent from
\* the loaded table, the cycle stops with an error message on the page and
\* nothing else: no widget, no aggregate, no chart.
C7_FatalStartup ==
    (~file.exists \/ OUTCOME_COL \notin file.table.columns) =>
        /\ pc \in {"load", "ensure_outcome", "stopped"}
        /\ rendered \subseteq Errors
        /\ pc = "stopped" => rendered # {}
        /\ chart = "" /\ agg = <<>>

\* A sheet that has no rows and no outcome column: the cycle has stopped and
\* the page shows nothing.
C7_Witness ==
    /\ pc = "stopped"
    /\ file.exists
    /\ OUTCOME_COL \notin file.table.columns
    /\ rendered = {}

\* The place of a label in its attribute's order: the rank table of the
\* degree, the start of the age bracket (a label with no start last).
OrdinalRank(col, label) ==
    IF col = COL_DEGREE THEN Position(label, DegreeOrder) ELSE StartKey(label)

HasRank(col, label) ==
    ~isna(label) /\ (col = COL_DEGREE => label \in Range(DegreeOrder))

\* C8: an aggregate grouped by the degree or by the age bracket is handed on
\* in the ordinal's order: of two rows that agree on the grouping columns
\* before the ordinal one, the earlier has the lower or the same rank.
C8_OrdinalOrder ==
    chart \in GroupedCharts =>
        \A k \in DOMAIN by :
            by[k] \in {COL_DEGREE, COL_AGE_GROUP} =>
                \A i, j \in DOMAIN agg :
                    (/\ i < j
                     /\ \A m \in 1..(k - 1) : agg[i].key[m] = agg[j].key[m]
                     /\ HasRank(by[k], agg[i].key[k])
                     /\ HasRank(by[k], agg[j].key[k]))
                        => OrdinalRank(by[k], agg[i].key[k]) <= OrdinalRank(by[k], agg[j].key[k])

\* The ranking by age bracket has two brackets with different means, and the
\* later bracket comes first.
C8_Witness ==
    /\ chart = "overview: ranking"
    /\ by = <<COL_AGE_GROUP>>
    /\ Len(agg) = 2
    /\ agg[1].mean[1] < agg[2].mean[1]
    /\ StartKey(agg[1].key[1]) < UnknownStart
    /\ StartKey(agg[2].key[1]) < StartKey(agg[1].key[1])

\* The cell of the file that a row of the loaded table comes from.
RawCell(r, col) ==
    (CHOOSE q \in Range(file.table.rows) : q[INDEX] = r[INDEX])[col]

\* An entry that is there and is no number.
NonNumeric(x) == ~isna(x) /\ ~IsDigits(x)

NumericCols == {OUTCOME_COL} \cup (IF COL_AGE \in df.columns THEN {COL_AGE} ELSE {})

HasNonNumeric(r) == \E c \in NumericCols : NonNumeric(RawCell(r, c))

\* C9 as claimed: a row with a non-numeric entry in a numeric column that
\* satisfies the categorical filters is in the filtered view.
C9_NonNumericRowStays ==
    pc = "guard" =>
        \A r \in Range(df.rows) :
            (HasNonNumeric(r) /\ GeoPass(r) /\ OtherPass(r))
                => r[INDEX] \in IndexSet(filtered)

\* C9 amended: a non-numeric entry in a numeric column is coerced to missing
\* (not zero); the categorical filters keep a row with such an entry when it
\* satisfies them, and the row is then removed from the filtered view: by the
\* age range filter, in a run whose slider returned a range, when its age is
\* missing, by the outcome-not-null step when its outcome is missing.
C9_NonNumericRowRemoved ==
    pc \in AfterSidebarGeo =>
        \A r \in Range(df.rows) :
            /\ \A c \in NumericCols : NonNumeric(RawCell(r, c)) => r[c] = NumNaN
            /\ (pc = "build_age" /\ GeoPass(r) /\ OtherPass(r))
                   => r[INDEX] \in IndexSet(filtered)
            /\ (pc = "build_notna" /\ COL_AGE \in df.columns /\ r[COL_AGE] = NumNaN)
                   => r[INDEX] \notin IndexSet(filtered)
            /\ (pc \in {"guard"} \cup Rendering /\ HasNonNumeric(r))
                   => r[INDEX] \notin IndexSet(filtered)

\* The slider returned a range; a row with a non-numeric age and a row with a
\* non-numeric outcome satisfy the categorical filters, and both are gone from
\* a view that has another row.
C9_Witness ==
    /\ pc = "guard"
    /\ sel_age # <<>>
    /\ Len(filtered.rows) = 1
    /\ \E r \in Range(df.rows) :
           /\ NonNumeric(RawCell(r, COL_AGE)) /\ OutcomePass(r)
           /\ GeoPass(r) /\ OtherPass(r)
           /\ r[INDEX] \notin IndexSet(filtered)
    /\ \E r \in Range(df.rows) :
           /\ NonNumeric(RawCell(r, OUTCOME_COL))
           /\ GeoPass(r) /\ OtherPass(r) /\ AgePass(r)
           /\ r[INDEX] \notin IndexSet(filtered)

\* The known labels of the degree, trimmed and lower-cased.
KnownDegree(x) == str_lower(str_strip(x)) \in DegreeMappingKeys

\* C10: order_degree keeps a value outside the known degree set: where the
\* tab has ordered the degree column, a cell whose text, trimmed and
\* lower-cased, is no known label holds that text.
C10_UnknownDegreeKept ==
    (COL_DEGREE \in DOMAIN f.cats) =>
        \A i \in DOMAIN f.rows :
            LET x == filtered.rows[i][COL_DEGREE]
            IN  (~isna(x) /\ x \notin {"nan", "None"} /\ ~KnownDegree(x))
                    => f.rows[i][COL_DEGREE] = x

\* A degree that is no known label has become a missing cell.
C10_Witness ==
    /\ COL_DEGREE \in DOMAIN f.cats
    /\ \E i \in DOMAIN f.rows :
           /\ ~isna(filtered.rows[i][COL_DEGREE])
           /\ ~KnownDegree(filtered.rows[i][COL_DEGREE])
           /\ isna(f.rows[i][COL_DEGREE])

\* The canonical label of a known degree.
Canonical(x) == DegreeMapping(str_lower(str_strip(DegreeStr(x))))

\* The degree labels of the groups of the aggregate that have a row, in its
\* order; the degree is the k-th grouping column.
DegreeLabels(groups, k) ==
    LET with_rows == SelectSeq(groups, LAMBDA g : g.members # {} /\ ~isna(g.key[k]))
    IN  [i \in DOMAIN with_rows |-> with_rows[i].key[k]]

\* C11: order_degree puts the known degree labels in the order of the fixed
\* rank table (PhD, kandidat, doktor nauk, doktor po profilyu, magistr, ne
\* imeet stepeni, Znachenie ne ukazano, NULL) whatever the order of the rows:
\* a cell whose text, trimmed and lower-cased, is a known label holds the
\* canonical label, the categories are the rank table, and an aggregate
\* grouped by the degree first has a group with rows for every known degree
\* of the view and its groups come by ascending rank.
C11_DegreeRankOrder ==
    /\ (COL_DEGREE \in DOMAIN f.cats) =>
          /\ f.cats[COL_DEGREE] = DegreeOrder
          /\ \A i \in DOMAIN f.rows :
                 LET x == filtered.rows[i][COL_DEGREE]
                 IN  KnownDegree(DegreeStr(x)) =>
                        /\ f.rows[i][COL_DEGREE] = Canonical(x)
                        /\ Canonical(x) \in Range(DegreeOrder)
    /\ (chart = "professional: grouped bars" /\ by[1] = COL_DEGREE) =>
          /\ Range(DegreeLabels(agg, 1)) =
                 {Canonical(r[COL_DEGREE]) :
                     r \in {q \in Range(filtered.rows) :
                               KnownDegree(DegreeStr(q[COL_DEGREE]))}}
          /\ \A i, j \in DOMAIN agg :
                 (i < j /\ ~isna(agg[i].key[1]) /\ ~isna(agg[j].key[1]))
                     => Position(agg[i].key[1], DegreeOrder)
                            <= Position(agg[j].key[1], DegreeOrder)

\* The rows hold magistr, PhD, kandidat, doktor nauk in this order and the
\* bars grouped by the degree that have rows come as PhD, kandidat, doktor
\* nauk, magistr.
C11_Witness ==
    /\ chart = "professional: grouped bars"
    /\ by[1] = COL_DEGREE
    /\ [i \in DOMAIN filtered.rows |-> filtered.rows[i][COL_DEGREE]]
           = <<"{magistr}", "PhD", "{kandidat}", "{doktor nauk}">>
    /\ DegreeLabels(agg, 1) = <<"PhD", "{kandidat}", "{doktor nauk}", "{magistr}">>

\* A padded upper-case label is held as its canonical label.
C11_WitnessVariant ==
    /\ COL_DEGREE \in DOMAIN f.cats
    /\ \E i \in DOMAIN f.rows :
           /\ filtered.rows[i][COL_DEGREE] = " PHD"
           /\ f.rows[i][COL_DEGREE] = "PhD"

\* A label with a "start-end" in it, and one with none; the missing cell is
\* one with none, as 'NULL'.
Parseable(label) == ~num_isna(ExtractStart(label))
Unparseable(label) == num_isna(ExtractStart(label))
ParsedStart(label) == ExtractStart(label)[1]

AgeLabels(groups, k) == [i \in DOMAIN groups |-> groups[i].key[k]]

\* The categories are the labels of the view, each once, and no cell is lost.
AgeCategoriesComplete ==
    /\ Injective(f.cats[COL_AGE_GROUP])
    /\ Range(f.cats[COL_AGE_GROUP]) =
           {AgeGroupStr(r[COL_AGE_GROUP]) : r \in Range(filtered.rows)}
    /\ \A i \in DOMAIN f.rows :
           f.rows[i][COL_AGE_GROUP] = AgeGroupStr(filtered.rows[i][COL_AGE_GROUP])

\* Brackets by ascending start, and no unparseable label before a bracket.
ParsedOrder(labels) ==
    \A i, j \in DOMAIN labels :
        i < j =>
            /\ (Parseable(labels[i]) /\ Parseable(labels[j]))
                   => ParsedStart(labels[i]) <= ParsedStart(labels[j])
            /\ ~(Unparseable(labels[i]) /\ Parseable(labels[j]))

\* C12 as claimed: order_age_group orders the age bracket labels by the
\* parsed start of "start-end", ascending, whatever the order of the rows, and
\* every label with no start (free text, the missing cell) comes after all
\* the labels with one: so the categories, and so an aggregate grouped by the
\* age bracket first.
C12_AgeBracketOrder ==
    /\ (COL_AGE_GROUP \in DOMAIN f.cats) =>
          AgeCategoriesComplete /\ ParsedOrder(f.cats[COL_AGE_GROUP])
    /\ (chart = "demographics: heatmap" /\ by[1] = COL_AGE_GROUP) =>
          ParsedOrder(AgeLabels(agg, 1))

\* The key a label is sorted on: its parsed start, 1e9 when it has none.
SentinelKey(label) ==
    IF Parseable(label) THEN ParsedStart(label) ELSE UnknownStart

\* Labels by ascending key, 'NULL' after all of them.
SentinelOrder(labels) ==
    \A i, j \in DOMAIN labels :
        i < j =>
            \/ labels[j] = "NULL"
            \/ /\ labels[i] # "NULL"
               /\ SentinelKey(labels[i]) <= SentinelKey(labels[j])

\* Of the labels whose start is below the sentinel, and of those with none:
\* brackets by ascending start, every label with no start after them.
OrderBelowSentinel(labels) ==
    \A i, j \in DOMAIN labels :
        (/\ i < j
         /\ SentinelKey(labels[i]) <= UnknownStart
         /\ SentinelKey(labels[j]) < UnknownStart)
            => /\ Parseable(labels[i])
               /\ ParsedStart(labels[i]) <= ParsedStart(labels[j])

\* C12 amended: order_age_group orders the labels, whatever the order of the
\* rows, by the key "parsed start, or 1e9 for a label with no start", and
\* puts 'NULL' (the missing cell) last.  Brackets with a start below 1e9
\* come by ascending start and before every label with no start; a bracket
\* with a start of 1e9 or more is placed by that start, among or after the
\* labels with no start.
C12_AgeBracketOrderBySentinel ==
    /\ (COL_AGE_GROUP \in DOMAIN f.cats) =>
          /\ AgeCategoriesComplete
          /\ SentinelOrder(f.cats[COL_AGE_GROUP])
          /\ OrderBelowSentinel(f.cats[COL_AGE_GROUP])
    /\ (chart = "demographics: heatmap" /\ by[1] = COL_AGE_GROUP) =>
          /\ SentinelOrder(AgeLabels(agg, 1))
          /\ OrderBelowSentinel(AgeLabels(agg, 1))

\* The rows hold 30-39, 10-19, unknown, 20-29 in this order; the categories
\* and the rows of the heatmap come as 10-19, 20-29, 30-39, unknown.
C12_Witness ==
    /\ chart = "demographics: heatmap"
    /\ by[1] = COL_AGE_GROUP
    /\ [i \in DOMAIN filtered.rows |-> filtered.rows[i][COL_AGE_GROUP]]
           = <<"30-39", "10-19", "unknown", "20-29">>
    /\ f.cats[COL_AGE_GROUP] = <<"10-19", "20-29", "30-39", "unknown">>
    /\ AgeLabels(agg, 1) = <<"10-19", "20-29", "30-39", "unknown">>

\* A missing cell and free text both come after a bracket with spaces in it.
C12_WitnessMissing ==
    /\ COL_AGE_GROUP \in DOMAIN f.cats
    /\ Len(filtered.rows) = 2
    /\ isna(filtered.rows[1][COL_AGE_GROUP])
    /\ filtered.rows[2][COL_AGE_GROUP] = "5 - 9"
    /\ f.cats[COL_AGE_GROUP] = <<"5 - 9", "NULL">>

\* Free text comes before a bracket whose start is above the sentinel.
C12_WitnessSentinel ==
    /\ COL_AGE_GROUP \in DOMAIN f.cats
    /\ f.cats[COL_AGE_GROUP] = <<"60+", "2000000000-2000000009">>

====
